---- MODULE Spec2Model ----
(***************************************************************************)
(* A model of the noise gate of src/src/lib.rs: the three-state hysteresis *)
(* automaton (next_state), the threshold test (below_threshold, abs) over  *)
(* 16-bit signed samples, and the drive loop (NoiseGate::process_frames)   *)
(* that reports record / end_of_transmission events to a sink.             *)
(***************************************************************************)
EXTENDS Integers, Sequences, FiniteSets, TLC

\* ------------------------------------------------------------------ bounds

\* Total number of frames fed to one gate over all process_frames calls.
MaxFrames == 6

\* Largest release_time a gate is constructed with.
MaxRelease == 2

\* Largest number of channels of a frame in the threshold-test specification.
MaxChannels == 2

\* Largest remaining_samples of a Closing state handed to next_state directly.
MaxRemaining == 3

\* ------------------------------------------------------ the sample type S

\* The sample type of the tests, the example and the benchmark is i16.
SampleBits == 16

MinSample == -(2 ^ (SampleBits - 1))

MaxSample == (2 ^ (SampleBits - 1)) - 1

\* <i16 as Sample>::EQUILIBRIUM
Equilibrium == 0

\* Sample::to_signed_sample; for i16 the signed sample type is i16 itself.
to_signed_sample(sample) == sample

\* Two's complement wrap-around of an arithmetic result (a build without
\* overflow checks).
wrapping(n) == ((n - MinSample) % (2 ^ SampleBits)) + MinSample

in_range(n) == MinSample <= n /\ n <= MaxSample

\* The unary minus of line 102.
wrapping_neg(x) == wrapping(0 - x)

neg_overflows(x) == ~in_range(0 - x)

\* The subtraction of line 89.
wrapping_sub(a, b) == wrapping(a - b)

sub_overflows(a, b) == ~in_range(a - b)

\* ------------------------------------------------------- input alphabets

\* Thresholds and single-channel frames the drive loop is exercised with.
DriveThresholds == {MinSample, -100, 100, MaxSample}

DriveSamples == {40, 150}

DriveFrames == {<<s>> : s \in DriveSamples}

\* Thresholds and samples the threshold test is exercised with: the ends of
\* the sample range, zero, and values around a threshold's magnitude.
Thresholds == {MinSample, MinSample + 1, -100, -1, 0, 1, 100, MaxSample}

Samples ==
    {MinSample, MinSample + 1, -101, -100, -99, -1, 0, 1, 99, 100, 101,
     MaxSample - 1, MaxSample}

WideFrames == UNION {[1..n -> Samples] : n \in 1..MaxChannels}

SeqsUpTo(S, n) == UNION {[1..k -> S] : k \in 0..n}

\* ------------------------------------------------------------- the state

VARIABLES
    open_threshold,   \* NoiseGate::open_threshold
    release_time,     \* NoiseGate::release_time
    state,            \* NoiseGate::state
    overflow_checks,  \* the build: TRUE when arithmetic overflow panics
    sink,             \* the calls made on the sink, in order
    frames,           \* the slice of the process_frames call in progress
    idx,              \* how many frames of that slice the loop has consumed
    pc,               \* "idle", "loop" (inside process_frames) or "panicked"
    input,            \* every frame passed to process_frames so far
    below,            \* result of the latest below_threshold call, or "none"
    overflowed,       \* an arithmetic operation has overflowed
    since_open,       \* k > 0: the last k frames were below threshold and
                      \* the gate was Open right before them; otherwise 0
    prev_state,       \* the gate's state before the latest frame, or NoState
    seen,             \* the frames handed to next_state so far, in order
    replies,          \* what is_open() / is_closed() last returned to the
                      \* caller since the latest process_frames call:
                      \* <<>> when not asked, <<value>> otherwise
    sink_state        \* the fields of the sink implementation in use

vars ==
    <<open_threshold, release_time, state, overflow_checks, sink, frames, idx,
      pc, input, below, overflowed, since_open, prev_state, seen, replies,
      sink_state>>

\* enum State
Open == [tag |-> "Open"]

Closing(r) == [tag |-> "Closing", remaining_samples |-> r]

Closed == [tag |-> "Closed"]

\* Sink::record and Sink::end_of_transmission, as entries of the sink's log.
Record(frame) == [op |-> "record", frame |-> frame]

EndOfTransmission == [op |-> "end_of_transmission"]

\* ------------------------------------------------------- the gate's code

\* is_open counting a gate that is Closing as closed.
is_open_only_open(s) == s.tag = "Open"

is_open(s) == s.tag \in {"Open", "Closing"}

is_closed(s) == ~is_open(s)

abs(sample) ==
    IF sample >= Equilibrium THEN sample ELSE wrapping_neg(sample)

abs_overflows(sample) == sample < Equilibrium /\ neg_overflows(sample)

\* The value below_threshold returns when no overflow check stops it.
below_threshold(frame, open) ==
    LET threshold == abs(to_signed_sample(open))
        negated_threshold ==
            wrapping_sub(to_signed_sample(Equilibrium), threshold)
    IN  \A ch \in DOMAIN frame :
            LET sample == to_signed_sample(frame[ch])
            IN  negated_threshold < sample /\ sample < threshold

\* Whether an arithmetic operation of below_threshold overflows.
below_threshold_overflows(open) ==
    \/ abs_overflows(to_signed_sample(open))
    \/ sub_overflows(to_signed_sample(Equilibrium),
                     abs(to_signed_sample(open)))

\* next_state closing one frame early: the countdown ends at 1 instead of 0.
next_state_closing_early(s, frame, open, release) ==
    CASE s.tag = "Open" ->
            IF below_threshold(frame, open) THEN Closing(release) ELSE Open
      [] s.tag = "Closing" ->
            IF below_threshold(frame, open)
            THEN IF s.remaining_samples <= 1
                 THEN Closed
                 ELSE Closing(s.remaining_samples - 1)
            ELSE Open
      [] s.tag = "Closed" ->
            IF below_threshold(frame, open) THEN Closed ELSE Open

\* next_state in which a signal frame does not interrupt the countdown.
next_state_resuming(s, frame, open, release) ==
    CASE s.tag = "Open" ->
            IF below_threshold(frame, open) THEN Closing(release) ELSE Open
      [] s.tag = "Closing" ->
            IF below_threshold(frame, open)
            THEN IF s.remaining_samples = 0
                 THEN Closed
                 ELSE Closing(s.remaining_samples - 1)
            ELSE s
      [] s.tag = "Closed" ->
            IF below_threshold(frame, open) THEN Closed ELSE Open

\* next_state that tests the countdown but forgets to decrement it.
next_state_stuck(s, frame, open, release) ==
    CASE s.tag = "Open" ->
            IF below_threshold(frame, open) THEN Closing(release) ELSE Open
      [] s.tag = "Closing" ->
            IF below_threshold(frame, open)
            THEN IF s.remaining_samples = 0
                 THEN Closed
                 ELSE Closing(s.remaining_samples)
            ELSE Open
      [] s.tag = "Closed" ->
            IF below_threshold(frame, open) THEN Closed ELSE Open

\* next_state that counts the frame entering Closing as one of the
\* release_time frames.
next_state_short_release(s, frame, open, release) ==
    CASE s.tag = "Open" ->
            IF below_threshold(frame, open)
            THEN Closing(IF release > 0 THEN release - 1 ELSE 0)
            ELSE Open
      [] s.tag = "Closing" ->
            IF below_threshold(frame, open)
            THEN IF s.remaining_samples = 0
                 THEN Closed
                 ELSE Closing(s.remaining_samples - 1)
            ELSE Open
      [] s.tag = "Closed" ->
            IF below_threshold(frame, open) THEN Closed ELSE Open

next_state(s, frame, open, release) ==
    CASE s.tag = "Open" ->
            IF below_threshold(frame, open) THEN Closing(release) ELSE Open
      [] s.tag = "Closing" ->
            IF below_threshold(frame, open)
            THEN IF s.remaining_samples = 0
                 THEN Closed
                 ELSE Closing(s.remaining_samples - 1)
            ELSE Open
      [] s.tag = "Closed" ->
            IF below_threshold(frame, open) THEN Closed ELSE Open

\* sink_calls deciding on the state before the frame instead of after it.
sink_calls_stale(previously_open, now_open, frame) ==
    IF previously_open
    THEN <<Record(frame)>>
    ELSE IF now_open THEN <<EndOfTransmission>> ELSE <<>>

\* sink_calls without the previously_open test of line 75.
sink_calls_always_end(previously_open, now_open, frame) ==
    IF now_open THEN <<Record(frame)>> ELSE <<EndOfTransmission>>

\* The sink calls of one loop iteration (lines 73-78).
sink_calls(previously_open, now_open, frame) ==
    IF now_open
    THEN <<Record(frame)>>
    ELSE IF previously_open THEN <<EndOfTransmission>> ELSE <<>>

\* No frame has been processed yet: there is no state before the latest one.
NoState == [tag |-> "none"]

\* The caller has asked nothing since the latest process_frames call.
NoReplies == [is_open |-> <<>>, is_closed |-> <<>>]

\* ------------------------------------------------- sink implementations

\* A sink of which only the calls it receives are known.
AnySink == [kind |-> "any"]

\* Counter::default() of the benchmark.
Counter == [kind |-> "Counter", samples |-> 0, chunks |-> 0]

\* Sink::new of the wav-splitter example. files lists the files created, in
\* order of creation: the number in each file's name, the samples written
\* to it and whether its writer was finalized. writer is <<>> for None and
\* <<k>> for Some(writer of the file at position k of files).
WavSink == [kind |-> "Sink", clip_number |-> 0, writer |-> <<>>,
            files |-> <<>>]

\* get_writer without the increment of clip_number.
get_writer_same_clip(s) ==
    IF s.writer = <<>>
    THEN [s EXCEPT
            !.files = Append(@, [number |-> s.clip_number,
                                 samples |-> <<>>,
                                 finalized |-> FALSE]),
            !.writer = <<Len(s.files) + 1>>]
    ELSE s

\* Sink::get_writer: the sink after the call.
get_writer(s) ==
    IF s.writer = <<>>
    THEN [s EXCEPT
            !.files = Append(@, [number |-> s.clip_number,
                                 samples |-> <<>>,
                                 finalized |-> FALSE]),
            !.clip_number = @ + 1,
            !.writer = <<Len(s.files) + 1>>]
    ELSE s

\* <Sink as noise_gate::Sink<F>>::record
wav_record(s, frame) ==
    LET t == get_writer(s)
    IN  [t EXCEPT !.files[t.writer[1]].samples = @ \o frame]

\* <Sink as noise_gate::Sink<F>>::end_of_transmission
wav_end_of_transmission(s) ==
    IF s.writer # <<>>
    THEN [s EXCEPT !.files[s.writer[1]].finalized = TRUE, !.writer = <<>>]
    ELSE s

\* <Counter as Sink<F>>::record
counter_record(s, frame) == [s EXCEPT !.samples = @ + 1]

\* <Counter as Sink<F>>::end_of_transmission
counter_end_of_transmission(s) == [s EXCEPT !.chunks = @ + 1]

\* One call of the Sink trait on the sink implementation in use.
sink_call(s, call) ==
    CASE s.kind = "Sink" ->
            IF call.op = "record"
            THEN wav_record(s, call.frame)
            ELSE wav_end_of_transmission(s)
      [] s.kind = "Counter" ->
            IF call.op = "record"
            THEN counter_record(s, call.frame)
            ELSE counter_end_of_transmission(s)
      [] OTHER -> s

\* The sink implementation after the calls of one loop iteration.
RECURSIVE deliver(_, _)
deliver(s, calls) ==
    IF calls = <<>> THEN s ELSE deliver(sink_call(s, Head(calls)), Tail(calls))

\* new building a gate that starts Open.
new_open(open, release) ==
    [open_threshold |-> open, release_time |-> release, state |-> Open]

\* NoiseGate::new
new(open, release) ==
    [open_threshold |-> open, release_time |-> release, state |-> Closed]

\* The ghost counter since_open after a frame has been classified.
next_since_open(s, is_below, k) ==
    IF ~is_below THEN 0
    ELSE IF s.tag = "Open" THEN 1
    ELSE IF k > 0 THEN k + 1 ELSE 0

\* ------------------------------------------------------------ the actions

Init ==
    /\ \E open \in DriveThresholds, release \in 0..MaxRelease :
          LET gate == new(open, release)
          IN  /\ open_threshold = gate.open_threshold
              /\ release_time = gate.release_time
              /\ state = gate.state
    /\ overflow_checks \in BOOLEAN
    /\ sink = <<>>
    /\ frames = <<>>
    /\ idx = 0
    /\ pc = "idle"
    /\ input = <<>>
    /\ below = "none"
    /\ overflowed = FALSE
    /\ since_open = 0
    /\ prev_state = NoState
    /\ seen = <<>>
    /\ replies = NoReplies
    /\ sink_state = AnySink

\* process_frames starting every call from a Closed state of its own.
Call_resetting(batch) ==
    /\ pc = "idle"
    /\ pc' = "loop"
    /\ frames' = batch
    /\ idx' = 0
    /\ input' = input \o batch
    /\ state' = Closed
    /\ replies' = NoReplies
    /\ UNCHANGED <<open_threshold, release_time, overflow_checks, sink,
                   below, overflowed, since_open, prev_state, seen,
                   sink_state>>

\* process_frames is called with a slice of frames.
Call(batch) ==
    /\ pc = "idle"
    /\ pc' = "loop"
    /\ frames' = batch
    /\ idx' = 0
    /\ input' = input \o batch
    /\ replies' = NoReplies
    /\ UNCHANGED <<open_threshold, release_time, state, overflow_checks, sink,
                   below, overflowed, since_open, prev_state, seen,
                   sink_state>>

\* The loop of process_frames taking previously_open from what a Counter
\* sink has counted instead of from the gate.
Step_asking_sink ==
    /\ pc = "loop"
    /\ idx < Len(frames)
    /\ ~(overflow_checks /\ below_threshold_overflows(open_threshold))
    /\ LET frame == frames[idx + 1]
           previously_open ==
               IF sink_state.kind = "Counter"
               THEN sink_state.samples > 0
               ELSE is_open(state)
           next == next_state(state, frame, open_threshold, release_time)
           is_below == below_threshold(frame, open_threshold)
           calls == sink_calls(previously_open, is_open(next), frame)
       IN  /\ state' = next
           /\ sink' = sink \o calls
           /\ sink_state' = deliver(sink_state, calls)
           /\ below' = is_below
           /\ since_open' = next_since_open(state, is_below, since_open)
           /\ seen' = Append(seen, frame)
    /\ prev_state' = state
    /\ idx' = idx + 1
    /\ overflowed' = (overflowed \/ below_threshold_overflows(open_threshold))
    /\ UNCHANGED <<open_threshold, release_time, overflow_checks, frames, pc,
                   input, replies>>

\* The loop of process_frames walking the slice from its far end.
Step_reversed ==
    /\ pc = "loop"
    /\ idx < Len(frames)
    /\ ~(overflow_checks /\ below_threshold_overflows(open_threshold))
    /\ LET frame == frames[Len(frames) - idx]
           previously_open == is_open(state)
           next == next_state(state, frame, open_threshold, release_time)
           is_below == below_threshold(frame, open_threshold)
           calls == sink_calls(previously_open, is_open(next), frame)
       IN  /\ state' = next
           /\ sink' = sink \o calls
           /\ sink_state' = deliver(sink_state, calls)
           /\ below' = is_below
           /\ since_open' = next_since_open(state, is_below, since_open)
           /\ seen' = Append(seen, frame)
    /\ prev_state' = state
    /\ idx' = idx + 1
    /\ overflowed' = (overflowed \/ below_threshold_overflows(open_threshold))
    /\ UNCHANGED <<open_threshold, release_time, overflow_checks, frames, pc,
                   input, replies>>

\* One iteration of the loop of process_frames.
Step ==
    /\ pc = "loop"
    /\ idx < Len(frames)
    /\ ~(overflow_checks /\ below_threshold_overflows(open_threshold))
    /\ LET frame == frames[idx + 1]
           previously_open == is_open(state)
           next == next_state(state, frame, open_threshold, release_time)
           is_below == below_threshold(frame, open_threshold)
           calls == sink_calls(previously_open, is_open(next), frame)
       IN  /\ state' = next
           /\ sink' = sink \o calls
           /\ sink_state' = deliver(sink_state, calls)
           /\ below' = is_below
           /\ since_open' = next_since_open(state, is_below, since_open)
           /\ seen' = Append(seen, frame)
    /\ prev_state' = state
    /\ idx' = idx + 1
    /\ overflowed' = (overflowed \/ below_threshold_overflows(open_threshold))
    /\ UNCHANGED <<open_threshold, release_time, overflow_checks, frames, pc,
                   input, replies>>

\* An iteration in a build with overflow checks, when the arithmetic of
\* below_threshold overflows: the thread panics inside next_state.
StepPanic ==
    /\ pc = "loop"
    /\ idx < Len(frames)
    /\ overflow_checks /\ below_threshold_overflows(open_threshold)
    /\ pc' = "panicked"
    /\ overflowed' = TRUE
    /\ UNCHANGED <<open_threshold, release_time, state, overflow_checks, sink,
                   frames, idx, input, below, since_open, prev_state, seen,
                   replies, sink_state>>

\* process_frames ending the transmission in progress when it returns.
Return_flushing ==
    /\ pc = "loop"
    /\ idx = Len(frames)
    /\ pc' = "idle"
    /\ frames' = <<>>
    /\ idx' = 0
    /\ sink' = IF is_open(state) THEN Append(sink, EndOfTransmission) ELSE sink
    /\ UNCHANGED <<open_threshold, release_time, state, overflow_checks,
                   input, below, overflowed, since_open, prev_state, seen,
                   replies, sink_state>>

\* The loop has consumed the slice: process_frames returns.
Return ==
    /\ pc = "loop"
    /\ idx = Len(frames)
    /\ pc' = "idle"
    /\ frames' = <<>>
    /\ idx' = 0
    /\ UNCHANGED <<open_threshold, release_time, state, overflow_checks, sink,
                   input, below, overflowed, since_open, prev_state, seen,
                   replies, sink_state>>

\* is_open() advancing the countdown of a gate that is Closing.
QueryIsOpen_ticking ==
    /\ pc = "idle"
    /\ replies' = [replies EXCEPT !.is_open = <<is_open(state)>>]
    /\ state' = IF state.tag = "Closing"
                THEN IF state.remaining_samples = 0
                     THEN Closed
                     ELSE Closing(state.remaining_samples - 1)
                ELSE state
    /\ UNCHANGED <<open_threshold, release_time, overflow_checks, sink,
                   frames, idx, pc, input, below, overflowed, since_open,
                   prev_state, seen, sink_state>>

\* The caller asks is_open() between two process_frames calls.
QueryIsOpen ==
    /\ pc = "idle"
    /\ replies' = [replies EXCEPT !.is_open = <<is_open(state)>>]
    /\ UNCHANGED <<open_threshold, release_time, state, overflow_checks, sink,
                   frames, idx, pc, input, below, overflowed, since_open,
                   prev_state, seen, sink_state>>

\* The caller asks is_closed() between two process_frames calls.
QueryIsClosed ==
    /\ pc = "idle"
    /\ replies' = [replies EXCEPT !.is_closed = <<is_closed(state)>>]
    /\ UNCHANGED <<open_threshold, release_time, state, overflow_checks, sink,
                   frames, idx, pc, input, below, overflowed, since_open,
                   prev_state, seen, sink_state>>

Next ==
    \/ \E batch \in SeqsUpTo(DriveFrames, MaxFrames - Len(input)) : Call(batch)
    \/ Step
    \/ StepPanic
    \/ Return
    \/ QueryIsOpen
    \/ QueryIsClosed

Spec == Init /\ [][Next]_vars

\* The frames the loop has consumed so far, over all calls.
Processed == SubSeq(input, 1, Len(input) - (Len(frames) - idx))

\* ------------------------------------------------- the end-to-end example

\* The single-channel sequence of the end-to-end example.
ExampleFrames ==
    <<<<150>>, <<150>>, <<40>>, <<40>>, <<40>>, <<40>>, <<40>>, <<40>>,
      <<150>>>>

\* The gate of the example, new(100, 2), in either build.
InitExample ==
    /\ LET gate == new(100, 2)
       IN  /\ open_threshold = gate.open_threshold
           /\ release_time = gate.release_time
           /\ state = gate.state
    /\ overflow_checks \in BOOLEAN
    /\ sink = <<>>
    /\ frames = <<>>
    /\ idx = 0
    /\ pc = "idle"
    /\ input = <<>>
    /\ below = "none"
    /\ overflowed = FALSE
    /\ since_open = 0
    /\ prev_state = NoState
    /\ seen = <<>>
    /\ replies = NoReplies
    /\ sink_state = AnySink

\* The caller passes the next n frames of the example to process_frames.
CallExample(n) ==
    Call(SubSeq(ExampleFrames, Len(input) + 1, Len(input) + n))

NextExample ==
    \/ \E n \in 0..(Len(ExampleFrames) - Len(input)) : CallExample(n)
    \/ Step
    \/ Return

SpecExample == InitExample /\ [][NextExample]_vars


\* ---------------------------------------------------- the threshold test

\* A new gate inside process_frames(&[frame]) for one frame of up to
\* MaxChannels channels, in either build.
InitThreshold ==
    /\ \E open \in Thresholds, frame \in WideFrames :
          LET gate == new(open, 0)
          IN  /\ open_threshold = gate.open_threshold
              /\ release_time = gate.release_time
              /\ state = gate.state
              /\ frames = <<frame>>
              /\ input = <<frame>>
    /\ overflow_checks \in BOOLEAN
    /\ sink = <<>>
    /\ idx = 0
    /\ pc = "loop"
    /\ below = "none"
    /\ overflowed = FALSE
    /\ since_open = 0
    /\ prev_state = NoState
    /\ seen = <<>>
    /\ replies = NoReplies
    /\ sink_state = AnySink

NextThreshold ==
    \/ Step
    \/ StepPanic
    \/ Return

SpecThreshold == InitThreshold /\ [][NextThreshold]_vars

\* ------------------------------------------ the gate with the two sinks

\* Thresholds of the gates driven with the benchmark's and the example's
\* sink.
SinkThresholds == {MinSample, 100}

\* A new gate and a new sink: the Counter of the benchmark or the Sink of
\* the wav-splitter example, in either build.
InitSinks ==
    /\ \E open \in SinkThresholds, release \in 0..MaxRelease :
          LET gate == new(open, release)
          IN  /\ open_threshold = gate.open_threshold
              /\ release_time = gate.release_time
              /\ state = gate.state
    /\ sink_state \in {Counter, WavSink}
    /\ overflow_checks \in BOOLEAN
    /\ sink = <<>>
    /\ frames = <<>>
    /\ idx = 0
    /\ pc = "idle"
    /\ input = <<>>
    /\ below = "none"
    /\ overflowed = FALSE
    /\ since_open = 0
    /\ prev_state = NoState
    /\ seen = <<>>
    /\ replies = NoReplies

SpecSinks == InitSinks /\ [][Next]_vars

\* ------------------------------------------------- the transition table

\* Every value of State with a countdown of at most MaxRemaining.
States == {Open, Closed} \cup {Closing(r) : r \in 0..MaxRemaining}

\* A gate in any state, as the unit tests hand one to next_state, inside
\* process_frames(&[frame]) for one single-channel frame, in either build.
InitTransition ==
    /\ \E open \in Thresholds, release \in 0..MaxRelease, start \in States,
          sample \in Samples :
          /\ open_threshold = open
          /\ release_time = release
          /\ state = start
          /\ frames = <<<<sample>>>>
          /\ input = <<<<sample>>>>
    /\ overflow_checks \in BOOLEAN
    /\ sink = <<>>
    /\ idx = 0
    /\ pc = "loop"
    /\ below = "none"
    /\ overflowed = FALSE
    /\ since_open = 0
    /\ prev_state = NoState
    /\ seen = <<>>
    /\ replies = NoReplies
    /\ sink_state = AnySink

SpecTransition == InitTransition /\ [][NextThreshold]_vars

\* ------------------------------------------ process_frames as one call

\* The gate state and the sink log after one process_frames call that runs
\* over the whole slice fs, from gate state s and sink log snk.
RECURSIVE process_frames(_, _, _, _, _)
process_frames(s, snk, fs, open, release) ==
    IF fs = <<>>
    THEN [state |-> s, sink |-> snk]
    ELSE LET frame == Head(fs)
             next == next_state(s, frame, open, release)
         IN  process_frames(
                 next,
                 snk \o sink_calls(is_open(s), is_open(next), frame),
                 Tail(fs), open, release)

\* The magnitude of a sample as an integer, without any sample width.
Magnitude(x) == IF x >= 0 THEN x ELSE 0 - x

\* The sink calls a step has added to the log.
NewCalls == SubSeq(sink', Len(sink) + 1, Len(sink'))

\* A step that has processed one frame.
FrameStep == pc = "loop" /\ idx' = idx + 1

\* ----------------------------------------------------------------- claims

\* C1: for every frame processed, record(frame) is called iff the new state
\* is open, end_of_transmission is called once iff the gate was open before
\* the frame and is Closed after it, and nothing is called iff the gate was
\* Closed before and after; so each frame causes at most one sink call.
C1_OneSinkCallPerFrame ==
    [][FrameStep =>
        LET frame == frames[idx + 1]
            was == is_open(state)
            now == is_open(state')
        IN  /\ SubSeq(sink', 1, Len(sink)) = sink
            /\ Len(sink) <= Len(sink')
            /\ Len(NewCalls) <= 1
            /\ (NewCalls = <<Record(frame)>>) <=> now
            /\ (NewCalls = <<EndOfTransmission>>) <=> (was /\ ~now)
            /\ (NewCalls = <<>>) <=> (~was /\ ~now)]_vars

\* C1 witness: frames have been recorded, a transmission has ended, the gate
\* has reopened, and some frames caused no sink call.
C1_Witness ==
    /\ \E j \in DOMAIN sink :
          sink[j] = EndOfTransmission /\ j < Len(sink)
    /\ Len(Processed) > Len(sink)

\* C2: in the sink's log, an end_of_transmission is never the first event
\* and always comes right after a record, so no two are adjacent and every
\* run of records that is followed by anything is followed by exactly one
\* end_of_transmission.
C2_EndFollowsRecord ==
    \A j \in DOMAIN sink :
        /\ sink[j].op \in {"record", "end_of_transmission"}
        /\ sink[j] = EndOfTransmission =>
              j > 1 /\ sink[j - 1].op = "record"

\* C2 witness: two transmissions have ended.
C2_Witness ==
    \E i, j \in DOMAIN sink :
        i < j /\ sink[i] = EndOfTransmission /\ sink[j] = EndOfTransmission

\* C3 (as claimed): after k consecutive below-threshold frames from Open the
\* gate is Closing while k <= release_time and Closed from then on, i.e. it
\* is Closing for exactly release_time frames.
C3_ClosingForReleaseTimeFrames ==
    since_open > 0 =>
        IF since_open <= release_time
        THEN state.tag = "Closing"
        ELSE state = Closed

\* C4 (as claimed): with release_time = 0 the first below-threshold frame
\* after Open leaves the gate Closed, is not recorded, and an
\* end_of_transmission is emitted for it.
C4_ZeroReleaseClosesAtOnce ==
    (release_time = 0 /\ since_open = 1) =>
        /\ state = Closed
        /\ sink # <<>>
        /\ sink[Len(sink)] = EndOfTransmission

\* C5: whatever the partition of the input into process_frames calls, the
\* sink log and the gate state are those of one call over all the frames
\* processed so far on a new gate.
C5_SplittingIsTransparent ==
    pc # "panicked" =>
        LET gate == new(open_threshold, release_time)
            once == process_frames(gate.state, <<>>, Processed,
                                   gate.open_threshold, gate.release_time)
        IN  state = once.state /\ sink = once.sink

\* C5 witness: a second non-empty call has consumed its slice after an
\* earlier call, and a transmission has ended.
C5_Witness ==
    /\ pc = "loop"
    /\ idx > 0
    /\ idx = Len(frames)
    /\ Len(input) > Len(frames)
    /\ \E j \in DOMAIN sink : sink[j] = EndOfTransmission

\* The states and the sink log the example names, frame by frame.
ExampleStates ==
    <<Open, Open, Closing(2), Closing(1), Closing(0), Closed, Closed, Closed,
      Open>>

ExampleSink ==
    <<Record(<<150>>), Record(<<150>>), Record(<<40>>), Record(<<40>>),
      Record(<<40>>), EndOfTransmission, Record(<<150>>)>>

ExampleSinkLen == <<1, 2, 3, 4, 5, 6, 6, 6, 7>>

C7_NoEndOnReturn ==
    [][(pc = "loop" /\ pc' = "idle") =>
        /\ sink' = sink
        /\ is_open(state') =>
              sink' # <<>> /\ sink'[Len(sink')].op = "record"]_vars

\* C7 witness: a call has returned with the gate still open.
C7_Witness == pc = "idle" /\ input # <<>> /\ is_open(state)

\* C8: a new gate is Closed, and as long as every frame processed was below
\* threshold the sink has received nothing and the gate is Closed.
C8_SilenceKeepsClosed ==
    (/\ pc # "panicked"
     /\ \A j \in 1..Len(Processed) :
           below_threshold(Processed[j], open_threshold)) =>
        sink = <<>> /\ state = Closed

\* C8 witness: several below-threshold frames were processed over more than
\* one call.
C8_Witness ==
    /\ pc = "loop"
    /\ idx > 0
    /\ Len(input) > Len(frames)
    /\ Len(Processed) >= 3
    /\ \A j \in 1..Len(Processed) :
          below_threshold(Processed[j], open_threshold)

\* C9 (as claimed): below_threshold(frame, threshold) is true iff every
\* channel's sample s has |s| < |threshold|, for every threshold of the
\* sample range.
C9_BelowIffEveryChannelQuiet ==
    (pc # "idle" /\ idx > 0) =>
        /\ below \in BOOLEAN
        /\ below <=>
              \A ch \in DOMAIN frames[idx] :
                  Magnitude(frames[idx][ch]) < Magnitude(open_threshold)

\* C10 (as claimed): process_frames never panics and no arithmetic
\* operation overflows, whatever the threshold.
C10_NoPanicNoOverflow == pc # "panicked" /\ ~overflowed


\* C11: whatever the state before it (Open, Closing{r} for any r, Closed), a
\* frame that is not below threshold leaves the gate Open, a state that
\* carries no countdown.
C11_SignalOpens ==
    (prev_state # NoState /\ below = FALSE) => state = Open

\* C11 witness: a signal frame has interrupted a countdown that was larger
\* than release_time.
C11_Witness ==
    /\ prev_state.tag = "Closing"
    /\ prev_state.remaining_samples > release_time
    /\ below = FALSE
    /\ state = Open

\* C12: a below-threshold frame takes Closing{r} to Closing{r - 1} when
\* r > 0 and to Closed when r = 0, whatever the frame, the threshold and
\* release_time.
C12_CountdownStep ==
    (prev_state.tag = "Closing" /\ below = TRUE) =>
        state = IF prev_state.remaining_samples = 0
                THEN Closed
                ELSE Closing(prev_state.remaining_samples - 1)

\* C12 witness: a countdown above release_time has been decremented.
C12_Witness ==
    /\ prev_state.tag = "Closing"
    /\ prev_state.remaining_samples > release_time
    /\ below = TRUE
    /\ state.tag = "Closing"

\* C13: a below-threshold frame takes Open to Closing{release_time}, and a
\* gate that has just entered Closing came from Open and holds the full
\* countdown release_time.
C13_ClosingStartsAtReleaseTime ==
    /\ (prev_state = Open /\ below = TRUE) => state = Closing(release_time)
    /\ (prev_state # NoState /\ prev_state.tag # "Closing"
            /\ state.tag = "Closing") =>
          prev_state = Open /\ state = Closing(release_time)

\* C13 witness: a countdown was interrupted by a signal frame after two
\* below-threshold frames, and the next below-threshold frame has started
\* a new one.
C13_Witness ==
    /\ Len(seen) = 5
    /\ release_time >= 2
    /\ ~below_threshold(seen[1], open_threshold)
    /\ below_threshold(seen[2], open_threshold)
    /\ below_threshold(seen[3], open_threshold)
    /\ ~below_threshold(seen[4], open_threshold)
    /\ below_threshold(seen[5], open_threshold)
    /\ state = Closing(release_time)


\* C14: is_open() returns true iff the state is Open or Closing{r},
\* is_closed() returns true iff it is Closed, and the two answers are each
\* other's negation.
C14_QueriesReportState ==
    /\ replies.is_open # <<>> =>
          replies.is_open[1] = (state = Open \/ state.tag = "Closing")
    /\ replies.is_closed # <<>> =>
          replies.is_closed[1] = (state = Closed)
    /\ (replies.is_open # <<>> /\ replies.is_closed # <<>>) =>
          replies.is_closed[1] = ~replies.is_open[1]

\* C14 witness: both queries were answered while the gate was Closing.
C14_Witness ==
    /\ state.tag = "Closing"
    /\ replies.is_open = <<TRUE>>
    /\ replies.is_closed = <<FALSE>>

\* The frames passed to sink.record, in the order of the calls.
RECURSIVE RecordedFrames(_)
RecordedFrames(log) ==
    IF log = <<>>
    THEN <<>>
    ELSE IF Head(log).op = "record"
         THEN <<Head(log).frame>> \o RecordedFrames(Tail(log))
         ELSE RecordedFrames(Tail(log))

\* Whether a is b with some of its elements left out.
RECURSIVE IsSubsequence(_, _)
IsSubsequence(a, b) ==
    IF a = <<>> THEN TRUE
    ELSE IF b = <<>> THEN FALSE
    ELSE IF Head(a) = Head(b)
         THEN IsSubsequence(Tail(a), Tail(b))
         ELSE IsSubsequence(a, Tail(b))

\* C15: the frames handed to next_state are the input frames up to the
\* loop's position, each once and in input order (all of them once the call
\* has returned), and the frames passed to sink.record are a subsequence of
\* them, with their values, so no frame is recorded twice.
C15_RecordsAreInputInOrder ==
    /\ seen = Processed
    /\ pc = "idle" => seen = input
    /\ IsSubsequence(RecordedFrames(sink), seen)
    /\ Len(sink) <= Len(seen)

\* C15 witness: over more than one call, frames of both values were
\* recorded and some frames were not.
C15_Witness ==
    /\ pc = "idle"
    /\ Len(seen) = MaxFrames
    /\ Len(RecordedFrames(sink)) < Len(seen)
    /\ \E i, j \in DOMAIN sink :
          /\ sink[i] = Record(<<40>>)
          /\ sink[j] = Record(<<150>>)

\* C17: a step between two process_frames calls, which is a call of
\* is_open() or is_closed(), changes neither the gate's state,
\* open_threshold and release_time nor the sink log.
C17_QueriesArePure ==
    [][(pc = "idle" /\ pc' = "idle") =>
        /\ state' = state
        /\ open_threshold' = open_threshold
        /\ release_time' = release_time
        /\ sink' = sink
        /\ sink_state' = sink_state]_vars

\* C17 witness: both queries were answered on an open gate between calls.
C17_Witness ==
    /\ pc = "idle"
    /\ input # <<>>
    /\ is_open(state)
    /\ replies.is_open # <<>>
    /\ replies.is_closed # <<>>

\* C18: a frame that leaves a Closing gate Closing decrements a positive
\* countdown by exactly 1; the countdown takes a value not smaller than
\* before only when Closing is entered from Open, where it is release_time;
\* release_time never changes and every Closing{r} has 0 <= r <= release_time.
C18_CountdownOnlyDecreases ==
    [][/\ release_time' = release_time
       /\ state'.tag = "Closing" =>
             state'.remaining_samples \in 0..release_time
       /\ (FrameStep /\ state.tag = "Closing" /\ state'.tag = "Closing") =>
             /\ state.remaining_samples > 0
             /\ state'.remaining_samples = state.remaining_samples - 1
       /\ (FrameStep /\ state.tag # "Closing" /\ state'.tag = "Closing") =>
             /\ state = Open
             /\ state'.remaining_samples = release_time]_vars

\* C18 witness: a countdown that started at 2 or more has reached 0.
C18_Witness ==
    /\ release_time >= 2
    /\ prev_state = Closing(1)
    /\ state = Closing(0)

C16_SinkHasNoInfluence ==
    pc # "panicked" =>
        LET once == process_frames(Closed, <<>>, seen, open_threshold,
                                   release_time)
        IN  /\ state = once.state
            /\ sink = once.sink
            /\ prev_state # NoState =>
                  state = next_state(prev_state, seen[Len(seen)],
                                     open_threshold, release_time)

\* C16 witness: a Counter sink has counted a finished transmission and the
\* frames of a second one.
C16_Witness ==
    /\ sink_state.kind = "Counter"
    /\ sink_state.chunks = 1
    /\ sink_state.samples >= 3
    /\ is_open(state)

\* The maximal runs of record calls of a sink log, in order: the frames of
\* each run and whether an end_of_transmission has followed it.
RECURSIVE Transmissions(_)
Transmissions(log) ==
    IF log = <<>>
    THEN <<>>
    ELSE LET init == Transmissions(SubSeq(log, 1, Len(log) - 1))
             last == log[Len(log)]
             running == init # <<>> /\ ~init[Len(init)].ended
         IN  IF last.op = "record"
             THEN IF running
                  THEN [init EXCEPT ![Len(init)].frames =
                                        Append(@, last.frame)]
                  ELSE Append(init, [frames |-> <<last.frame>>,
                                     ended |-> FALSE])
             ELSE IF running
                  THEN [init EXCEPT ![Len(init)].ended = TRUE]
                  ELSE init

\* The channels of a sequence of frames, interlaced.
RECURSIVE Interlaced(_)
Interlaced(fs) == IF fs = <<>> THEN <<>> ELSE Head(fs) \o Interlaced(Tail(fs))

\* C20: the example's sink has created one file per transmission started,
\* numbered 0, 1, 2, ... in order; clip_number is their count; each file
\* holds the samples of its transmission, and is finalized iff that
\* transmission has ended; a writer is held iff a transmission is in
\* progress (the gate is open), and it writes to the latest file.
C20_OneFilePerTransmission ==
    sink_state.kind = "Sink" =>
        LET spans == Transmissions(sink)
            files == sink_state.files
        IN  /\ Len(files) = Len(spans)
            /\ sink_state.clip_number = Len(spans)
            /\ \A k \in DOMAIN files :
                  /\ files[k].number = k - 1
                  /\ files[k].samples = Interlaced(spans[k].frames)
                  /\ files[k].finalized = spans[k].ended
            /\ (sink_state.writer # <<>>) =
                  (spans # <<>> /\ ~spans[Len(spans)].ended)
            /\ (sink_state.writer # <<>>) = is_open(state)
            /\ sink_state.writer # <<>> => sink_state.writer = <<Len(files)>>

\* C20 witness: one file was finalized and a second one is being written.
C20_Witness ==
    /\ sink_state.kind = "Sink"
    /\ Len(sink_state.files) = 2
    /\ sink_state.files[1].finalized
    /\ sink_state.writer = <<2>>
    /\ Len(sink_state.files[2].samples) >= 2

====
